---- MODULE Spec2Model ----
(***************************************************************************)
(* Model of the why-backend authentication / authorization core: the       *)
(* token service (internal/auth), the AuthMiddleware gate, the Signup and  *)
(* Login handlers and the message / reply handlers behind the gate.        *)
(*                                                                         *)
(* Strings that the code takes apart (the Authorization header, a token    *)
(* string) are sequences of atoms: a word, a single space, or a signed     *)
(* token.  Concatenation is \o, strings.SplitN is computed on the atoms.   *)
(***************************************************************************)
EXTENDS Integers, Sequences, FiniteSets, TLC

\* ------------------------------------------------------------------ bounds
MaxTime == 2

MaxMessages == 2

MaxReplies == 1

MaxHeld == 2

\* the replies of the specification of the read routes
MaxThread == 3

\* the messages of the specification of a feed longer than the limit
MaxFeed == 52

\* the token lifetime, in clock ticks (24h in the token service)
TokenLifetime == 2

\* ---------------------------------------------------------------- domains
Secrets == {"your-secret-key-change-in-production", "wrong-secret",
            "test-secret-key"}

\* the secrets of the tokens sent to the running service
SentSecrets == {"your-secret-key-change-in-production", "wrong-secret"}

Emails == {"a@x.com", "b@x.com"}

\* subjects of tokens minted outside Signup / Login (the tests mint "user-123")
ForeignIDs == {"user-123"}

\* gen_random_uuid(): the ids the users table hands out, in order
UserUUIDs == <<"u1", "u2">>

\* the requests the service handles at the same time
Slots == {"c1", "c2"}

\* what the validator's email rule accepts, among the emails sent
WellFormedEmails == Emails

Passwords == {"password1", "password2"}

\* LIMIT 50 of ListMessages
MessagesLimit == 50

\* binding:"required,min=8"
MinPasswordLen == 8

Salts == {"s1", "s2"}

\* the bodies of POST /signup and POST /login
Bodies(emails, passwords) == [email : emails, password : passwords]

SignupBodies == Bodies(Emails \cup {"not-an-email"}, {"password1", "short"})

LoginBodies == Bodies(Emails \cup {"not-an-email"}, Passwords \cup {""})

\* the one signup the specifications about the gate start from
OneSignup == Bodies({"a@x.com"}, {"password1"})

\* the body of POST /messages and POST /messages/:id/replies; user_id is a
\* field the client may add
ContentBodies == [content : {"hello", "", "   "}, media_urls : {<< >>},
                  user_id : {"", "u1", "u2"}]

\* the one body the specifications about the gate send
OneContent == [content : {"hello"}, media_urls : {<< >>}, user_id : {""}]

\* bodies of POST /messages/:id/replies that add fields CreateReplyRequest
\* does not have: user_id, and message_id (0 when the body has none)
ReplyBodies == [content : {"hello"}, media_urls : {<< >>},
                user_id : {"", "u2"}, message_id : {0, 2}]

\* NewRouter: the routes behind protected.Use(middleware.AuthMiddleware(cfg))
ProtectedRoutes == {"POST /messages", "POST /messages/:id/replies", "POST /media"}

\* ---------------------------------------------------------------- strings
W(text) == [kind |-> "raw", text |-> text]

SP == [kind |-> "sp"]

Nil == [kind |-> "nil"]

\* ------------------------------------------------------------------ state
VARIABLES
    now,      \* the clock
    cfg,      \* config.Config as loaded at start-up
    users,    \* Identity Store: the rows of table users
    messages, \* Content Store: the rows of table messages
    replies,  \* Content Store: the rows of table replies
    req,      \* the requests in flight, one per slot: its gin.Context
    held,     \* the tokens clients hold, from 200 / 201 responses
    tsIn,     \* token tests: the userID, email and secret under test
    tsTok,    \* token tests: the token string generated
    tsOut     \* token tests: the last ValidateToken call and its result

vars == <<now, cfg, users, messages, replies, req, held, tsIn, tsTok, tsOut>>

store == <<users, messages, replies>>

harness == <<tsIn, tsTok, tsOut>>

\* ------------------------------------------------- token service (auth)
\* HMAC-SHA256 of the claims under key: equal signatures iff equal claims
\* and equal key
HS256(claims, key) == [msg |-> claims, key |-> key]

GenerateTokenSwapped(userID, email, secret, t) ==
    LET claims == [UserID |-> email, Email |-> userID,
                   IssuedAt |-> t, ExpiresAt |-> t + TokenLifetime]
    IN  << [kind |-> "jwt", claims |-> claims, sig |-> HS256(claims, secret)] >>

\* auth.GenerateToken(userID, email, secret), called when the clock reads t
GenerateToken(userID, email, secret, t) ==
    LET claims == [UserID |-> userID, Email |-> email,
                   IssuedAt |-> t, ExpiresAt |-> t + TokenLifetime]
    IN  << [kind |-> "jwt", claims |-> claims, sig |-> HS256(claims, secret)] >>

ValidateTokenExpiryInclusive(tokenString, secret, t) ==
    IF Len(tokenString) # 1 \/ tokenString[1].kind # "jwt"
    THEN [err |-> "token is malformed", claims |-> Nil]
    ELSE IF tokenString[1].sig # HS256(tokenString[1].claims, secret)
    THEN [err |-> "signature is invalid", claims |-> Nil]
    ELSE IF ~(t <= tokenString[1].claims.ExpiresAt)
    THEN [err |-> "token is expired", claims |-> Nil]
    ELSE [err |-> "nil", claims |-> tokenString[1].claims]

\* auth.ValidateToken(tokenString, secret), called when the clock reads t:
\* parse, verify the signature, then check expiresAt > now
ValidateToken(tokenString, secret, t) ==
    IF Len(tokenString) # 1 \/ tokenString[1].kind # "jwt"
    THEN [err |-> "token is malformed", claims |-> Nil]
    ELSE IF tokenString[1].sig # HS256(tokenString[1].claims, secret)
    THEN [err |-> "signature is invalid", claims |-> Nil]
    ELSE IF ~(t < tokenString[1].claims.ExpiresAt)
    THEN [err |-> "token is expired", claims |-> Nil]
    ELSE [err |-> "nil", claims |-> tokenString[1].claims]

\* ------------------------------------------------------------ strings (Go)
\* strings.Index(s, " "): the place of the first space of s, 0 if it has none
IndexSP(s) ==
    IF \E i \in 1..Len(s) : s[i] = SP
    THEN CHOOSE i \in 1..Len(s) : s[i] = SP /\ \A j \in 1..(i - 1) : s[j] # SP
    ELSE 0

\* strings.SplitN(s, " ", 2)
SplitN(s) ==
    LET i == IndexSP(s)
    IN  IF i = 0 THEN << s >>
        ELSE << SubSeq(s, 1, i - 1), SubSeq(s, i + 1, Len(s)) >>

\* ------------------------------------------------------- credential hasher
\* auth.HashPassword(password): bcrypt, with the salt drawn for this call
HashPassword(password, salt) == [alg |-> "bcrypt", salt |-> salt, of |-> password]

\* auth.CheckPassword(password, hash): TRUE when err == nil
CheckPassword(password, hash) == hash.alg = "bcrypt" /\ hash.of = password

\* --------------------------------------------------------- request binding
\* binding:"required,email" / binding:"required,min=8" of SignupRequest
BindSignupRequest(body) ==
    /\ body.email # ""
    /\ body.email \in WellFormedEmails
    /\ body.password # ""
    /\ Len(body.password) >= MinPasswordLen

\* binding:"required,email" / binding:"required" of LoginRequest
BindLoginRequest(body) ==
    /\ body.email # ""
    /\ body.email \in WellFormedEmails
    /\ body.password # ""

\* binding:"required" of CreateMessageRequest and CreateReplyRequest; a field
\* the struct does not declare (user_id) is dropped by the decoder
BindContentRequest(body) == body.content # ""

\* ------------------------------------------------------------- the stores
UserIDsOf(rows) == {u.id : u \in rows}

\* a users table whose email column is not UNIQUE
InsertUserNoUnique(email, passwordHash) ==
    [err |-> "nil",
     row |-> [id |-> UserUUIDs[(Cardinality(users) % Len(UserUUIDs)) + 1],
              email |-> email, password_hash |-> passwordHash]]

\* INSERT INTO users (email, password_hash) ... RETURNING id, email, ...
\* email is UNIQUE; id defaults to a fresh uuid
InsertUser(email, passwordHash) ==
    IF \E u \in users : u.email = email
    THEN [err |-> "unique_violation", row |-> Nil]
    ELSE [err |-> "nil",
          row |-> [id |-> UserUUIDs[Cardinality(users) + 1], email |-> email,
                   password_hash |-> passwordHash]]

\* SELECT ... FROM users WHERE email = $1
SelectUserByEmail(email) ==
    IF \E u \in users : u.email = email
    THEN [err |-> "nil", row |-> CHOOSE u \in users : u.email = email]
    ELSE [err |-> "sql.ErrNoRows", row |-> Nil]

\* a messages table whose user_id column has no REFERENCES users(id)
InsertMessageNoOwner(userID, content, mediaURLs) ==
    [err |-> "nil",
     row |-> [id |-> Cardinality(messages) + 1, user_id |-> userID,
              content |-> content, media_urls |-> mediaURLs,
              created_at |-> now]]

\* INSERT INTO messages (user_id, content, media_urls) ... RETURNING ...
\* user_id REFERENCES users(id)
InsertMessage(userID, content, mediaURLs) ==
    IF userID \notin UserIDsOf(users)
    THEN [err |-> "foreign_key_violation", row |-> Nil]
    ELSE [err |-> "nil",
          row |-> [id |-> Cardinality(messages) + 1, user_id |-> userID,
                   content |-> content, media_urls |-> mediaURLs,
                   created_at |-> now]]

\* a replies table whose message_id column has no REFERENCES messages(id)
InsertReplyNoParent(messageID, userID, content, mediaURLs) ==
    IF userID \notin UserIDsOf(users)
    THEN [err |-> "foreign_key_violation", row |-> Nil]
    ELSE [err |-> "nil",
          row |-> [id |-> Cardinality(replies) + 1, message_id |-> messageID,
                   user_id |-> userID, content |-> content,
                   media_urls |-> mediaURLs, created_at |-> now]]

\* INSERT INTO replies (message_id, user_id, content, media_urls) ...
\* message_id REFERENCES messages(id), user_id REFERENCES users(id)
InsertReply(messageID, userID, content, mediaURLs) ==
    IF userID \notin UserIDsOf(users) \/ messageID \notin {m.id : m \in messages}
    THEN [err |-> "foreign_key_violation", row |-> Nil]
    ELSE [err |-> "nil",
          row |-> [id |-> Cardinality(replies) + 1, message_id |-> messageID,
                   user_id |-> userID, content |-> content,
                   media_urls |-> mediaURLs, created_at |-> now]]

\* every order in which a query may return the rows: a query returns each
\* row once
Orders(rows) ==
    {f \in [1..Cardinality(rows) -> rows] :
        \A i, j \in 1..Cardinality(rows) : i # j => f[i] # f[j]}

\* a query that returns every row it finds: no LIMIT
LimitOff(seq, n) == seq

\* LIMIT n
Limit(seq, n) == SubSeq(seq, 1, IF Len(seq) < n THEN Len(seq) ELSE n)

\* SELECT ... FROM messages ORDER BY created_at ASC LIMIT 50: a query with
\* the sort of the opposite direction
SelectMessagesAscending ==
    {Limit(f, MessagesLimit) : f \in {g \in Orders(messages) :
        \A i, j \in 1..Len(g) : i < j => g[i].created_at <= g[j].created_at}}

\* ORDER BY created_at DESC: every order of the rows in which created_at
\* does not grow, built from the newest row on; rows with equal created_at
\* come in any order
RECURSIVE Descending(_)
Descending(rows) ==
    IF rows = {} THEN {<< >>}
    ELSE LET newest == {m \in rows :
                           \A o \in rows : o.created_at <= m.created_at}
         IN  UNION {{<< m >> \o rest : rest \in Descending(rows \ {m})} :
                       m \in newest}

\* SELECT ... FROM messages ORDER BY created_at DESC LIMIT 50: the results
\* the query may give
SelectMessages == {Limit(f, MessagesLimit) : f \in Descending(messages)}

\* messages.id is of type UUID and ids are numbered from 1: 0 stands for a
\* path segment that is not the text of a UUID, such as "nonexistent"
IsUUID(id) == id >= 1

\* SELECT ... FROM messages WHERE id = $1; the store rejects a parameter
\* that it cannot read as a UUID
SelectMessageByID(messageID) ==
    IF ~IsUUID(messageID)
    THEN [err |-> "invalid input syntax for type uuid", row |-> Nil]
    ELSE IF \E m \in messages : m.id = messageID
    THEN [err |-> "nil", row |-> CHOOSE m \in messages : m.id = messageID]
    ELSE [err |-> "sql.ErrNoRows", row |-> Nil]

\* a query for the replies of a message that leaves the WHERE clause out
SelectRepliesOfAll(messageID) ==
    {f \in Orders(replies) :
        \A i, j \in 1..Len(f) : i < j => f[i].created_at <= f[j].created_at}

\* SELECT ... FROM replies WHERE message_id = $1 ORDER BY created_at ASC:
\* the results the query may give
SelectReplies(messageID) ==
    {f \in Orders({p \in replies : p.message_id = messageID}) :
        \A i, j \in 1..Len(f) : i < j => f[i].created_at <= f[j].created_at}

\* ------------------------------------------------------ authorization gate
Rejected(message, trail) ==
    [status |-> 401, error |-> message, aborted |-> TRUE, keys |-> Nil,
     trail |-> trail]

\* a gate that files the two claims under each other's key
AuthorizedSwapped(claims) ==
    [status |-> 0, error |-> "", aborted |-> FALSE,
     keys |-> [user_id |-> claims.Email, email |-> claims.UserID],
     trail |-> <<"GetHeader", "SplitN", "ValidateToken", "Set", "Next">>]

\* c.Set("user_id", claims.UserID); c.Set("email", claims.Email); c.Next()
Authorized(claims) ==
    [status |-> 0, error |-> "", aborted |-> FALSE,
     keys |-> [user_id |-> claims.UserID, email |-> claims.Email],
     trail |-> <<"GetHeader", "SplitN", "ValidateToken", "Set", "Next">>]

\* a gate that writes its 401 and forgets c.Abort()
AuthMiddlewareNoAbort(authHeader, config, t) ==
    IF authHeader = << >>
    THEN [Rejected("authorization header required", <<"GetHeader">>)
            EXCEPT !.aborted = FALSE]
    ELSE LET parts == SplitN(authHeader)
         IN  IF Len(parts) # 2 \/ parts[1] # << W("Bearer") >>
             THEN [Rejected("invalid authorization header format",
                            <<"GetHeader", "SplitN">>) EXCEPT !.aborted = FALSE]
             ELSE LET res == ValidateToken(parts[2], config.JWTSecret, t)
                  IN  IF res.err # "nil"
                      THEN [Rejected("invalid or expired token",
                                     <<"GetHeader", "SplitN", "ValidateToken">>)
                              EXCEPT !.aborted = FALSE]
                      ELSE Authorized(res.claims)

\* a gate that reads the claims of a token whose signature does not verify
AuthMiddlewareErrIgnored(authHeader, config, t) ==
    IF authHeader = << >>
    THEN Rejected("authorization header required", <<"GetHeader">>)
    ELSE LET parts == SplitN(authHeader)
         IN  IF Len(parts) # 2 \/ parts[1] # << W("Bearer") >>
             THEN Rejected("invalid authorization header format",
                           <<"GetHeader", "SplitN">>)
             ELSE LET res == ValidateToken(parts[2], config.JWTSecret, t)
                  IN  IF res.err = "signature is invalid"
                      THEN Authorized(parts[2][1].claims)
                      ELSE IF res.err # "nil"
                      THEN Rejected("invalid or expired token",
                                    <<"GetHeader", "SplitN", "ValidateToken">>)
                      ELSE Authorized(res.claims)

\* a gate that accepts only the latest token handed out for a subject
AuthMiddlewareLatestOnly(authHeader, config, t) ==
    IF authHeader = << >>
    THEN Rejected("authorization header required", <<"GetHeader">>)
    ELSE LET parts == SplitN(authHeader)
         IN  IF Len(parts) # 2 \/ parts[1] # << W("Bearer") >>
             THEN Rejected("invalid authorization header format",
                           <<"GetHeader", "SplitN">>)
             ELSE LET res == ValidateToken(parts[2], config.JWTSecret, t)
                  IN  IF res.err # "nil"
                         \/ \E other \in held :
                               /\ other[1].claims.UserID = res.claims.UserID
                               /\ other[1].claims.IssuedAt > res.claims.IssuedAt
                      THEN Rejected("invalid or expired token",
                                    <<"GetHeader", "SplitN", "ValidateToken">>)
                      ELSE Authorized(res.claims)

\* a gate that looks the subject up in the users table
AuthMiddlewareKnownSubjectsOnly(authHeader, config, t) ==
    IF authHeader = << >>
    THEN Rejected("authorization header required", <<"GetHeader">>)
    ELSE LET parts == SplitN(authHeader)
         IN  IF Len(parts) # 2 \/ parts[1] # << W("Bearer") >>
             THEN Rejected("invalid authorization header format",
                           <<"GetHeader", "SplitN">>)
             ELSE LET res == ValidateToken(parts[2], config.JWTSecret, t)
                  IN  IF res.err # "nil"
                         \/ res.claims.UserID \notin UserIDsOf(users)
                      THEN Rejected("invalid or expired token",
                                    <<"GetHeader", "SplitN", "ValidateToken">>)
                      ELSE Authorized(res.claims)

\* a gate that validates whatever follows the first space before it looks
\* at the scheme
AuthMiddlewareValidateFirst(authHeader, config, t) ==
    IF authHeader = << >>
    THEN Rejected("authorization header required", <<"GetHeader">>)
    ELSE LET parts == SplitN(authHeader)
             res   == IF Len(parts) = 2
                      THEN ValidateToken(parts[2], config.JWTSecret, t)
                      ELSE [err |-> "token is malformed", claims |-> Nil]
         IN  IF Len(parts) # 2 \/ parts[1] # << W("Bearer") >>
             THEN Rejected("invalid authorization header format",
                           <<"GetHeader", "SplitN", "ValidateToken">>)
             ELSE IF res.err # "nil"
             THEN Rejected("invalid or expired token",
                           <<"GetHeader", "SplitN", "ValidateToken">>)
             ELSE Authorized(res.claims)

\* a gate that compares the scheme without regard to case
AuthMiddlewareAnyCase(authHeader, config, t) ==
    IF authHeader = << >>
    THEN Rejected("authorization header required", <<"GetHeader">>)
    ELSE LET parts == SplitN(authHeader)
         IN  IF Len(parts) # 2
                \/ parts[1] \notin {<< W("Bearer") >>, << W("bearer") >>,
                                    << W("BEARER") >>}
             THEN Rejected("invalid authorization header format",
                           <<"GetHeader", "SplitN">>)
             ELSE LET res == ValidateToken(parts[2], config.JWTSecret, t)
                  IN  IF res.err # "nil"
                      THEN Rejected("invalid or expired token",
                                    <<"GetHeader", "SplitN", "ValidateToken">>)
                      ELSE Authorized(res.claims)

\* a gate whose format check also wants one non-empty segment after "Bearer "
AuthMiddlewareStrictToken(authHeader, config, t) ==
    IF authHeader = << >>
    THEN Rejected("authorization header required", <<"GetHeader">>)
    ELSE LET parts == SplitN(authHeader)
         IN  IF Len(parts) # 2 \/ parts[1] # << W("Bearer") >>
                \/ parts[2] = << >> \/ IndexSP(parts[2]) # 0
             THEN Rejected("invalid authorization header format",
                           <<"GetHeader", "SplitN">>)
             ELSE LET res == ValidateToken(parts[2], config.JWTSecret, t)
                  IN  IF res.err # "nil"
                      THEN Rejected("invalid or expired token",
                                    <<"GetHeader", "SplitN", "ValidateToken">>)
                      ELSE Authorized(res.claims)

\* middleware.AuthMiddleware(cfg)(c), run when the clock reads t: what it
\* leaves in the gin.Context (status and body written, aborted or not, the
\* keys set) and the calls it made, in order
AuthMiddleware(authHeader, config, t) ==
    IF authHeader = << >>
    THEN Rejected("authorization header required", <<"GetHeader">>)
    ELSE LET parts == SplitN(authHeader)
         IN  IF Len(parts) # 2 \/ parts[1] # << W("Bearer") >>
             THEN Rejected("invalid authorization header format",
                           <<"GetHeader", "SplitN">>)
             ELSE LET res == ValidateToken(parts[2], config.JWTSecret, t)
                  IN  IF res.err # "nil"
                      THEN Rejected("invalid or expired token",
                                    <<"GetHeader", "SplitN", "ValidateToken">>)
                      ELSE Authorized(res.claims)

\* ---------------------------------------------------------------- requests
Idle == [pc |-> "idle"]

\* the gin.Context of a request of a public route, before its handler ran
NoGate == [status |-> 0, error |-> "", aborted |-> FALSE, keys |-> Nil,
           trail |-> << >>]

\* c.JSON(status, ...): the response of a finished request
Respond(r, route, body, status, error, token, data) ==
    [pc |-> "done", route |-> route, header |-> req[r].header,
     gate |-> req[r].gate, at |-> req[r].at, seen |-> req[r].seen,
     fresh |-> req[r].fresh,
     body |-> body, invoked |-> TRUE,
     status |-> status, error |-> error, token |-> token, data |-> data]

\* a request of a public route, taken up by an idle slot
Accept(route) ==
    [pc |-> "idle", route |-> route, header |-> << >>, gate |-> NoGate,
     at |-> 0, seen |-> {}, fresh |-> FALSE]

\* ------------------------------------------------------------------- Init
\* config.Load, with JWT_SECRET not set in the environment
Load == [JWTSecret |-> "your-secret-key-change-in-production"]

Init ==
    /\ now = 0
    /\ cfg = Load
    /\ users = {}
    /\ messages = {}
    /\ replies = {}
    /\ req = [r \in Slots |-> Idle]
    /\ held = {}
    /\ tsIn = [userID |-> "user-123", email |-> "a@x.com",
               secret |-> "wrong-secret"]
    /\ tsTok = << >>
    /\ tsOut = Nil

\* time passes
Tick ==
    /\ now < MaxTime
    /\ now' = now + 1
    /\ UNCHANGED <<cfg, store, req, held, harness>>

\* ------------------------------------------------------- signup and login
\* AuthHandler.Signup up to the INSERT: ShouldBindJSON, HashPassword
SignupBind(r, bodies, salts) ==
    /\ req[r].pc = "idle"
    /\ \E body \in bodies, salt \in salts :
          req' = [req EXCEPT ![r] =
             IF ~BindSignupRequest(body)
             THEN [Accept("POST /signup") EXCEPT !.pc = "done"] @@
                  [body |-> body, invoked |-> TRUE, status |-> 400,
                   error |-> "validation", token |-> << >>, data |-> Nil]
             ELSE [Accept("POST /signup") EXCEPT
                      !.pc = "insert",
                      !.fresh = \A u \in users : u.email # body.email] @@
                  [body |-> body, invoked |-> TRUE,
                   hash |-> HashPassword(body.password, salt)]]
    /\ UNCHANGED <<now, cfg, store, held, harness>>

\* a signup whose INSERT is an upsert (ON CONFLICT (email) DO UPDATE SET
\* password_hash): the row of a taken email gets the new hash
SignupInsertUpsert(r) ==
    /\ req[r].pc = "insert"
    /\ LET old == {u \in users : u.email = req[r].body.email}
           id  == IF old = {} THEN UserUUIDs[Cardinality(users) + 1]
                  ELSE (CHOOSE u \in old : TRUE).id
           row == [id |-> id, email |-> req[r].body.email,
                   password_hash |-> req[r].hash]
       IN  /\ users' = (users \ old) \cup {row}
           /\ req' = [req EXCEPT ![r] =
                 Respond(r, "POST /signup", req[r].body, 201, "",
                         GenerateToken(row.id, row.email, cfg.JWTSecret, now),
                         [id |-> row.id, email |-> row.email])]
    /\ UNCHANGED <<now, cfg, messages, replies, held, harness>>

\* a signup that answers with the whole row of the users table
SignupInsertWholeRow(r) ==
    /\ req[r].pc = "insert"
    /\ LET ins == InsertUser(req[r].body.email, req[r].hash)
       IN  IF ins.err # "nil"
           THEN /\ req' = [req EXCEPT ![r] =
                      Respond(r, "POST /signup", req[r].body, 409,
                              "email already exists", << >>, Nil)]
                /\ UNCHANGED users
           ELSE /\ users' = users \cup {ins.row}
                /\ req' = [req EXCEPT ![r] =
                      Respond(r, "POST /signup", req[r].body, 201, "",
                              GenerateToken(ins.row.id, ins.row.email,
                                            cfg.JWTSecret, now),
                              ins.row)]
    /\ UNCHANGED <<now, cfg, messages, replies, held, harness>>

\* AuthHandler.Signup from the INSERT on: the insert, GenerateToken, c.JSON
SignupInsert(r) ==
    /\ req[r].pc = "insert"
    /\ LET ins == InsertUser(req[r].body.email, req[r].hash)
       IN  IF ins.err # "nil"
           THEN /\ req' = [req EXCEPT ![r] =
                      Respond(r, "POST /signup", req[r].body, 409,
                              "email already exists", << >>, Nil)]
                /\ UNCHANGED users
           ELSE /\ users' = users \cup {ins.row}
                /\ req' = [req EXCEPT ![r] =
                      Respond(r, "POST /signup", req[r].body, 201, "",
                              GenerateToken(ins.row.id, ins.row.email,
                                            cfg.JWTSecret, now),
                              [id |-> ins.row.id, email |-> ins.row.email])]
    /\ UNCHANGED <<now, cfg, messages, replies, held, harness>>

\* a signup that takes the identity back when no token could be made for it
\* (INSERT and GenerateToken in one transaction)
SignupInsertRollsBack(r) ==
    /\ req[r].pc = "insert"
    /\ InsertUser(req[r].body.email, req[r].hash).err = "nil"
    /\ req' = [req EXCEPT ![r] =
          Respond(r, "POST /signup", req[r].body, 500,
                  "failed to create token", << >>, Nil)]
    /\ UNCHANGED <<now, cfg, store, held, harness>>

\* AuthHandler.Signup from the INSERT on, auth.GenerateToken returning an
\* error after the INSERT went through
SignupInsertTokenFails(r) ==
    /\ req[r].pc = "insert"
    /\ LET ins == InsertUser(req[r].body.email, req[r].hash)
       IN  /\ ins.err = "nil"
           /\ users' = users \cup {ins.row}
           /\ req' = [req EXCEPT ![r] =
                 Respond(r, "POST /signup", req[r].body, 500,
                         "failed to create token", << >>, Nil)]
    /\ UNCHANGED <<now, cfg, messages, replies, held, harness>>

\* a login that tells the caller which of the two checks failed
LoginDistinctErrors(r, bodies) ==
    /\ req[r].pc = "idle"
    /\ \E body \in bodies :
          LET sel  == SelectUserByEmail(body.email)
              user == sel.row
          IN  req' = [req EXCEPT ![r] =
                 [Accept("POST /login") EXCEPT !.pc = "done"] @@
                 [body |-> body, invoked |-> TRUE] @@
                 (IF ~BindLoginRequest(body)
                  THEN [status |-> 400, error |-> "validation",
                        token |-> << >>, data |-> Nil]
                  ELSE IF sel.err = "sql.ErrNoRows"
                  THEN [status |-> 401, error |-> "user not found",
                        token |-> << >>, data |-> Nil]
                  ELSE IF ~CheckPassword(body.password, user.password_hash)
                  THEN [status |-> 401, error |-> "invalid email or password",
                        token |-> << >>, data |-> Nil]
                  ELSE [status |-> 200, error |-> "",
                        token |-> GenerateToken(user.id, user.email,
                                                cfg.JWTSecret, now),
                        data |-> [id |-> user.id, email |-> user.email]])]
    /\ UNCHANGED <<now, cfg, store, held, harness>>

\* a login that looks the identity up and leaves the password unchecked
LoginAnyPassword(r, bodies) ==
    /\ req[r].pc = "idle"
    /\ \E body \in bodies :
          LET sel  == SelectUserByEmail(body.email)
              user == sel.row
          IN  req' = [req EXCEPT ![r] =
                 [Accept("POST /login") EXCEPT !.pc = "done"] @@
                 [body |-> body, invoked |-> TRUE] @@
                 (IF ~BindLoginRequest(body)
                  THEN [status |-> 400, error |-> "validation",
                        token |-> << >>, data |-> Nil]
                  ELSE IF sel.err = "sql.ErrNoRows"
                  THEN [status |-> 401, error |-> "invalid email or password",
                        token |-> << >>, data |-> Nil]
                  ELSE [status |-> 200, error |-> "",
                        token |-> GenerateToken(user.id, user.email,
                                                cfg.JWTSecret, now),
                        data |-> [id |-> user.id, email |-> user.email]])]
    /\ UNCHANGED <<now, cfg, store, held, harness>>

\* AuthHandler.Login
Login(r, bodies) ==
    /\ req[r].pc = "idle"
    /\ \E body \in bodies :
          LET sel  == SelectUserByEmail(body.email)
              user == sel.row
          IN  req' = [req EXCEPT ![r] =
                 [Accept("POST /login") EXCEPT !.pc = "done"] @@
                 [body |-> body, invoked |-> TRUE] @@
                 (IF ~BindLoginRequest(body)
                  THEN [status |-> 400, error |-> "validation",
                        token |-> << >>, data |-> Nil]
                  ELSE IF sel.err = "sql.ErrNoRows"
                  THEN [status |-> 401, error |-> "invalid email or password",
                        token |-> << >>, data |-> Nil]
                  ELSE IF ~CheckPassword(body.password, user.password_hash)
                  THEN [status |-> 401, error |-> "invalid email or password",
                        token |-> << >>, data |-> Nil]
                  ELSE [status |-> 200, error |-> "",
                        token |-> GenerateToken(user.id, user.email,
                                                cfg.JWTSecret, now),
                        data |-> [id |-> user.id, email |-> user.email]])]
    /\ UNCHANGED <<now, cfg, store, held, harness>>

\* the response reaches the client, which keeps the token of a 200 or 201
Deliver(r) ==
    /\ req[r].pc = "done"
    /\ req[r].token # << >>
    /\ Cardinality(held \cup {req[r].token}) <= MaxHeld
    /\ held' = held \cup {req[r].token}
    /\ req' = [req EXCEPT ![r] = Idle]
    /\ UNCHANGED <<now, cfg, store, harness>>

\* the response reaches the client, which keeps nothing of it
Discard(r) ==
    /\ req[r].pc = "done"
    /\ req' = [req EXCEPT ![r] = Idle]
    /\ UNCHANGED <<now, cfg, store, held, harness>>

\* ------------------------------------------------------- protected routes
\* "Bearer " + token
Bearer(token) == << W("Bearer"), SP >> \o token

\* the times of issue of the tokens presented: just now, or one lifetime
\* ago (such a token expires at this very tick)
IssueTimes == {t \in {now - TokenLifetime, now} : t >= 0}

\* the tokens presented to the service: made with GenerateToken (as
\* Signup, Login and the tests do), under any secret, for the identities of
\* the store and for subjects it has no record of
Minted ==
    {GenerateToken(id, "a@x.com", secret, t) :
        id \in UserIDsOf(users) \cup ForeignIDs, secret \in SentSecrets,
        t \in IssueTimes}

\* the Authorization headers of well-behaved clients: none, or "Bearer "
\* and a token
Headers == {<< >>} \cup {Bearer(token) : token \in Minted}

\* the headers of clients that hold tokens of earlier responses
HeldHeaders == {Bearer(token) : token \in held}

\* every shape of header the gate tells apart, around a token that is valid
\* when sent
ShapedHeaders ==
    LET token == GenerateToken("user-123", "a@x.com", cfg.JWTSecret, now)
    IN  {<< W("Bearer") >>, << W("Bearer"), SP >>,
         << W("bearer"), SP >> \o token, << W("BEARER"), SP >> \o token,
         << W("Basic"), SP >> \o token, token,
         Bearer(token) \o << SP, W("x") >>, << W("Bearer"), SP, SP >> \o token,
         Bearer(<< W("randomstring") >>), << SP >> \o Bearer(token)}

\* a request to a route of the protected group: AuthMiddleware runs first,
\* and the handler is the next of the chain unless the context is aborted
Protected(r, routes, headers) ==
    /\ req[r].pc = "idle"
    /\ \E route \in routes, header \in headers :
          LET c == AuthMiddleware(header, cfg, now)
          IN  req' = [req EXCEPT ![r] =
                 [pc |-> IF c.aborted THEN "done" ELSE "handler",
                  route |-> route, header |-> header, gate |-> c, at |-> now,
                  seen |-> UserIDsOf(users), fresh |-> FALSE, body |-> Nil,
                  invoked |-> FALSE,
                  status |-> c.status, error |-> c.error, token |-> << >>,
                  data |-> Nil]]
    /\ UNCHANGED <<now, cfg, store, held, harness>>

\* a handler that takes the owner from the body when the body names one
CreateMessageTrustsBody(r, bodies) ==
    /\ req[r].pc = "handler"
    /\ req[r].route = "POST /messages"
    /\ Cardinality(messages) < MaxMessages
    /\ \E body \in bodies :
          LET userID == IF body.user_id # "" THEN body.user_id
                        ELSE IF req[r].gate.keys = Nil THEN ""
                        ELSE req[r].gate.keys.user_id
              ins == InsertMessage(userID, body.content, body.media_urls)
          IN  IF req[r].gate.keys = Nil
              THEN /\ req' = [req EXCEPT ![r] =
                         Respond(r, req[r].route, Nil, 500, "panic", << >>, Nil)]
                   /\ UNCHANGED messages
              ELSE IF ~BindContentRequest(body)
              THEN /\ req' = [req EXCEPT ![r] =
                         Respond(r, req[r].route, body, 400, "validation", << >>, Nil)]
                   /\ UNCHANGED messages
              ELSE IF ins.err # "nil"
              THEN /\ req' = [req EXCEPT ![r] =
                         Respond(r, req[r].route, body, 500,
                                 "failed to create message", << >>, Nil)]
                   /\ UNCHANGED messages
              ELSE /\ messages' = messages \cup {ins.row}
                   /\ req' = [req EXCEPT ![r] =
                         Respond(r, req[r].route, body, 201, "", << >>, ins.row)]
    /\ UNCHANGED <<now, cfg, users, replies, held, harness>>

\* a handler that reads the identity from a place all requests share, where
\* the gate of another request in flight has written since
CreateMessageSharedIdentity(r, bodies) ==
    /\ req[r].pc = "handler"
    /\ req[r].route = "POST /messages"
    /\ Cardinality(messages) < MaxMessages
    /\ \E body \in bodies :
          LET others == {r2 \in Slots \ {r} : /\ req[r2].pc = "handler"
                                              /\ req[r2].gate.keys # Nil}
              userID == IF others # {}
                        THEN req[CHOOSE r2 \in others : TRUE].gate.keys.user_id
                        ELSE IF req[r].gate.keys = Nil THEN ""
                        ELSE req[r].gate.keys.user_id
              ins == InsertMessage(userID, body.content, body.media_urls)
          IN  IF req[r].gate.keys = Nil
              THEN /\ req' = [req EXCEPT ![r] =
                         Respond(r, req[r].route, Nil, 500, "panic", << >>, Nil)]
                   /\ UNCHANGED messages
              ELSE IF ~BindContentRequest(body)
              THEN /\ req' = [req EXCEPT ![r] =
                         Respond(r, req[r].route, body, 400, "validation", << >>, Nil)]
                   /\ UNCHANGED messages
              ELSE IF ins.err # "nil"
              THEN /\ req' = [req EXCEPT ![r] =
                         Respond(r, req[r].route, body, 500,
                                 "failed to create message", << >>, Nil)]
                   /\ UNCHANGED messages
              ELSE /\ messages' = messages \cup {ins.row}
                   /\ req' = [req EXCEPT ![r] =
                         Respond(r, req[r].route, body, 201, "", << >>, ins.row)]
    /\ UNCHANGED <<now, cfg, users, replies, held, harness>>

\* a handler that keeps one message per owner: a new message takes the place
\* of the owner's earlier one (INSERT ... ON CONFLICT (user_id) DO UPDATE)
CreateMessageOverwrites(r, bodies) ==
    /\ req[r].pc = "handler"
    /\ req[r].route = "POST /messages"
    /\ req[r].gate.keys # Nil
    /\ Cardinality(messages) < MaxMessages
    /\ \E body \in bodies :
          LET userID == req[r].gate.keys.user_id
              ins == InsertMessage(userID, body.content, body.media_urls)
          IN  IF ~BindContentRequest(body)
              THEN /\ req' = [req EXCEPT ![r] =
                         Respond(r, req[r].route, body, 400, "validation", << >>, Nil)]
                   /\ UNCHANGED messages
              ELSE IF ins.err # "nil"
              THEN /\ req' = [req EXCEPT ![r] =
                         Respond(r, req[r].route, body, 500,
                                 "failed to create message", << >>, Nil)]
                   /\ UNCHANGED messages
              ELSE /\ messages' = {m \in messages : m.user_id # userID}
                                     \cup {ins.row}
                   /\ req' = [req EXCEPT ![r] =
                         Respond(r, req[r].route, body, 201, "", << >>, ins.row)]
    /\ UNCHANGED <<now, cfg, users, replies, held, harness>>

\* a handler that runs the INSERT with what the body holds and looks at the
\* binding error afterwards
CreateMessageInsertsFirst(r, bodies) ==
    /\ req[r].pc = "handler"
    /\ req[r].route = "POST /messages"
    /\ req[r].gate.keys # Nil
    /\ Cardinality(messages) < MaxMessages
    /\ \E body \in bodies :
          LET userID == req[r].gate.keys.user_id
              ins == InsertMessage(userID, body.content, body.media_urls)
          IN  /\ messages' = IF ins.err = "nil" THEN messages \cup {ins.row}
                             ELSE messages
              /\ req' = [req EXCEPT ![r] =
                    IF ~BindContentRequest(body)
                    THEN Respond(r, req[r].route, body, 400, "validation",
                                 << >>, Nil)
                    ELSE IF ins.err # "nil"
                    THEN Respond(r, req[r].route, body, 500,
                                 "failed to create message", << >>, Nil)
                    ELSE Respond(r, req[r].route, body, 201, "", << >>,
                                 ins.row)]
    /\ UNCHANGED <<now, cfg, users, replies, held, harness>>

\* MessageHandler.CreateMessage, while the table holds fewer than cap rows
CreateMessageWithin(r, bodies, cap) ==
    /\ req[r].pc = "handler"
    /\ req[r].route = "POST /messages"
    /\ Cardinality(messages) < cap
    /\ \E body \in bodies :
          LET userID == IF req[r].gate.keys = Nil THEN ""
                        ELSE req[r].gate.keys.user_id
              ins == InsertMessage(userID, body.content, body.media_urls)
          IN  IF req[r].gate.keys = Nil
              THEN /\ req' = [req EXCEPT ![r] =
                         Respond(r, req[r].route, Nil, 500, "panic", << >>, Nil)]
                   /\ UNCHANGED messages
              ELSE IF ~BindContentRequest(body)
              THEN /\ req' = [req EXCEPT ![r] =
                         Respond(r, req[r].route, body, 400, "validation", << >>, Nil)]
                   /\ UNCHANGED messages
              ELSE IF ins.err # "nil"
              THEN /\ req' = [req EXCEPT ![r] =
                         Respond(r, req[r].route, body, 500,
                                 "failed to create message", << >>, Nil)]
                   /\ UNCHANGED messages
              ELSE /\ messages' = messages \cup {ins.row}
                   /\ req' = [req EXCEPT ![r] =
                         Respond(r, req[r].route, body, 201, "", << >>, ins.row)]
    /\ UNCHANGED <<now, cfg, users, replies, held, harness>>

\* MessageHandler.CreateMessage
CreateMessage(r, bodies) == CreateMessageWithin(r, bodies, MaxMessages)

\* a reply handler that takes the message and the owner from the body when
\* the body names them
CreateReplyTrustsBody(r, bodies, cap) ==
    /\ req[r].pc = "handler"
    /\ req[r].route = "POST /messages/:id/replies"
    /\ Cardinality(replies) < cap
    /\ req[r].gate.keys # Nil
    /\ \E body \in bodies, messageID \in 1..(Cardinality(messages) + 1) :
          LET userID == IF body.user_id # "" THEN body.user_id
                        ELSE req[r].gate.keys.user_id
              parent == IF "message_id" \in DOMAIN body /\ body.message_id # 0
                        THEN body.message_id ELSE messageID
              ins == InsertReply(parent, userID, body.content, body.media_urls)
          IN  IF ins.err # "nil"
              THEN /\ req' = [req EXCEPT ![r] =
                         Respond(r, req[r].route, body, 500,
                                 "failed to create reply", << >>, Nil)
                         @@ [id |-> messageID]]
                   /\ UNCHANGED replies
              ELSE /\ replies' = replies \cup {ins.row}
                   /\ req' = [req EXCEPT ![r] =
                         Respond(r, req[r].route, body, 201, "", << >>, ins.row)
                         @@ [id |-> messageID]]
    /\ UNCHANGED <<now, cfg, users, messages, held, harness>>

\* MessageHandler.CreateReply, while the table holds fewer than cap rows;
\* c.Param("id") is the id the path carries
CreateReplyWithin(r, bodies, cap) ==
    /\ req[r].pc = "handler"
    /\ req[r].route = "POST /messages/:id/replies"
    /\ Cardinality(replies) < cap
    /\ \E body \in bodies, messageID \in 1..(Cardinality(messages) + 1) :
          LET userID == IF req[r].gate.keys = Nil THEN ""
                        ELSE req[r].gate.keys.user_id
              ins == InsertReply(messageID, userID, body.content, body.media_urls)
          IN  IF req[r].gate.keys = Nil
              THEN /\ req' = [req EXCEPT ![r] =
                         Respond(r, req[r].route, Nil, 500, "panic", << >>, Nil)
                         @@ [id |-> messageID]]
                   /\ UNCHANGED replies
              ELSE IF ~BindContentRequest(body)
              THEN /\ req' = [req EXCEPT ![r] =
                         Respond(r, req[r].route, body, 400, "validation", << >>, Nil)
                         @@ [id |-> messageID]]
                   /\ UNCHANGED replies
              ELSE IF ins.err # "nil"
              THEN /\ req' = [req EXCEPT ![r] =
                         Respond(r, req[r].route, body, 500,
                                 "failed to create reply", << >>, Nil)
                         @@ [id |-> messageID]]
                   /\ UNCHANGED replies
              ELSE /\ replies' = replies \cup {ins.row}
                   /\ req' = [req EXCEPT ![r] =
                         Respond(r, req[r].route, body, 201, "", << >>, ins.row)
                         @@ [id |-> messageID]]
    /\ UNCHANGED <<now, cfg, users, messages, held, harness>>

\* MessageHandler.CreateReply
CreateReply(r, bodies) == CreateReplyWithin(r, bodies, MaxReplies)

\* MediaHandler.UploadMedia: c.FormFile("file"), file.Open(), then
\* storage.UploadFile; each of the three may fail
UploadMedia(r) ==
    /\ req[r].pc = "handler"
    /\ req[r].route = "POST /media"
    /\ \E file \in {"missing", "unreadable", "not stored", "stored"} :
          req' = [req EXCEPT ![r] =
             IF file = "missing"
             THEN Respond(r, req[r].route, Nil, 400, "file is required", << >>, Nil)
             ELSE IF file = "unreadable"
             THEN Respond(r, req[r].route, Nil, 500, "failed to read file", << >>, Nil)
             ELSE IF file = "not stored"
             THEN Respond(r, req[r].route, Nil, 500, "failed to upload file", << >>, Nil)
             ELSE Respond(r, req[r].route, Nil, 200, "", << >>, [url |-> "url"])]
    /\ UNCHANGED <<now, cfg, store, held, harness>>

\* ------------------------------------------------------------- read routes
\* GET /messages registered in the protected group: AuthMiddleware runs
\* before the handler
ListMessagesGated(r, headers) ==
    /\ req[r].pc = "idle"
    /\ \E header \in headers, rows \in SelectMessages :
          LET c == AuthMiddleware(header, cfg, now)
          IN  req' = [req EXCEPT ![r] =
                 [Accept("GET /messages") EXCEPT
                     !.pc = "done", !.header = header, !.gate = c]
                 @@ [body |-> Nil, invoked |-> ~c.aborted, token |-> << >>]
                 @@ (IF c.aborted
                     THEN [status |-> c.status, error |-> c.error,
                           data |-> Nil]
                     ELSE [status |-> 200, error |-> "", data |-> rows])]
    /\ UNCHANGED <<now, cfg, store, held, harness>>

\* MessageHandler.ListMessages; the route is public, a header sent with the
\* request is read by nobody
ListMessages(r, headers) ==
    /\ req[r].pc = "idle"
    /\ \E header \in headers, rows \in SelectMessages :
          req' = [req EXCEPT ![r] =
             [Accept("GET /messages") EXCEPT !.pc = "done", !.header = header]
             @@ [body |-> Nil, invoked |-> TRUE, status |-> 200, error |-> "",
                 token |-> << >>, data |-> rows]]
    /\ UNCHANGED <<now, cfg, store, held, harness>>

\* MessageHandler.GetMessage; c.Param("id") is the id the path carries
GetMessage(r, headers) ==
    /\ req[r].pc = "idle"
    /\ \E header \in headers, messageID \in 0..(Cardinality(messages) + 1) :
          LET sel == SelectMessageByID(messageID)
          IN  req' = [req EXCEPT ![r] =
                 [Accept("GET /messages/:id") EXCEPT
                     !.pc = "done", !.header = header]
                 @@ [body |-> Nil, invoked |-> TRUE, id |-> messageID,
                     token |-> << >>]
                 @@ (IF sel.err = "sql.ErrNoRows"
                     THEN [status |-> 404, error |-> "message not found",
                           data |-> Nil]
                     ELSE IF sel.err # "nil"
                     THEN [status |-> 500, error |-> "failed to get message",
                           data |-> Nil]
                     ELSE [status |-> 200, error |-> "", data |-> sel.row])]
    /\ UNCHANGED <<now, cfg, store, held, harness>>

\* MessageHandler.ListReplies; c.Param("id") is the id the path carries
ListReplies(r, headers) ==
    /\ req[r].pc = "idle"
    /\ \E header \in headers, messageID \in 1..(Cardinality(messages) + 1) :
       \E rows \in SelectReplies(messageID) :
          req' = [req EXCEPT ![r] =
             [Accept("GET /messages/:id/replies") EXCEPT
                 !.pc = "done", !.header = header]
             @@ [body |-> Nil, invoked |-> TRUE, id |-> messageID,
                 status |-> 200, error |-> "", token |-> << >>,
                 data |-> rows]]
    /\ UNCHANGED <<now, cfg, store, held, harness>>

\* ----------------------------------------------------------- store failures
\* an error of database/sql that is neither a constraint violation nor
\* sql.ErrNoRows: the connection is lost, the context is cancelled
StoreFaults == {"sql.ErrConnDone"}

\* what a request whose store call returned fault keeps beside its response:
\* the error, and the number of calls the handler made to the store
Failed(fault) == [fault |-> fault, calls |-> 1]

\* AuthHandler.Signup from the INSERT on, the INSERT returning a fault:
\* every err # nil is answered http.StatusConflict
SignupInsertDown(r) ==
    /\ req[r].pc = "insert"
    /\ \E fault \in StoreFaults :
          req' = [req EXCEPT ![r] =
             Respond(r, "POST /signup", req[r].body, 409,
                     "email already exists", << >>, Nil) @@ Failed(fault)]
    /\ UNCHANGED <<now, cfg, store, held, harness>>

\* AuthHandler.Login, the SELECT returning a fault
LoginDown(r, bodies) ==
    /\ req[r].pc = "idle"
    /\ \E body \in bodies, fault \in StoreFaults :
          /\ BindLoginRequest(body)
          /\ req' = [req EXCEPT ![r] =
                [Accept("POST /login") EXCEPT !.pc = "done"] @@
                [body |-> body, invoked |-> TRUE, status |-> 500,
                 error |-> "login failed", token |-> << >>, data |-> Nil]
                @@ Failed(fault)]
    /\ UNCHANGED <<now, cfg, store, held, harness>>

\* MessageHandler.CreateMessage, the INSERT returning a fault
CreateMessageDown(r, bodies) ==
    /\ req[r].pc = "handler"
    /\ req[r].route = "POST /messages"
    /\ req[r].gate.keys # Nil
    /\ \E body \in bodies, fault \in StoreFaults :
          /\ BindContentRequest(body)
          /\ req' = [req EXCEPT ![r] =
                Respond(r, req[r].route, body, 500,
                        "failed to create message", << >>, Nil)
                @@ Failed(fault)]
    /\ UNCHANGED <<now, cfg, store, held, harness>>

\* MessageHandler.CreateReply, the INSERT returning a fault
CreateReplyDown(r, bodies) ==
    /\ req[r].pc = "handler"
    /\ req[r].route = "POST /messages/:id/replies"
    /\ req[r].gate.keys # Nil
    /\ \E body \in bodies, fault \in StoreFaults :
          /\ BindContentRequest(body)
          /\ req' = [req EXCEPT ![r] =
                Respond(r, req[r].route, body, 500,
                        "failed to create reply", << >>, Nil)
                @@ Failed(fault)]
    /\ UNCHANGED <<now, cfg, store, held, harness>>

\* a public read route whose query returned a fault
ReadDown(r, route, ids, error) ==
    /\ req[r].pc = "idle"
    /\ \E messageID \in ids, fault \in StoreFaults :
          req' = [req EXCEPT ![r] =
             [Accept(route) EXCEPT !.pc = "done"] @@
             [body |-> Nil, invoked |-> TRUE, id |-> messageID,
              status |-> 500, error |-> error, token |-> << >>,
              data |-> Nil] @@ Failed(fault)]
    /\ UNCHANGED <<now, cfg, store, held, harness>>

\* MessageHandler.ListMessages, the SELECT returning a fault
ListMessagesDown(r) ==
    ReadDown(r, "GET /messages", {0}, "failed to list messages")

\* MessageHandler.GetMessage, the SELECT returning a fault
GetMessageDown(r) ==
    ReadDown(r, "GET /messages/:id", 1..(Cardinality(messages) + 1),
             "failed to get message")

\* MessageHandler.ListReplies, the SELECT returning a fault
ListRepliesDown(r) ==
    ReadDown(r, "GET /messages/:id/replies", 1..(Cardinality(messages) + 1),
             "failed to list replies")

\* the write path: signups, and requests to the protected routes
Next ==
    \/ Tick
    \/ SignupBind("c2", OneSignup, {"s1"})
    \/ SignupInsert("c2")
    \/ Discard("c2")
    \/ Protected("c1", ProtectedRoutes, Headers)
    \/ CreateMessage("c1", ContentBodies)
    \/ CreateReply("c1", OneContent)
    \/ UploadMedia("c1")
    \/ Discard("c1")

Spec == Init /\ [][Next]_vars

\* the gate, under every shape of Authorization header
NextGate ==
    \/ Tick
    \/ SignupBind("c2", OneSignup, {"s1"})
    \/ SignupInsert("c2")
    \/ Discard("c2")
    \/ Protected("c1", ProtectedRoutes, Headers \cup ShapedHeaders)
    \/ CreateMessage("c1", OneContent)
    \/ CreateReply("c1", OneContent)
    \/ UploadMedia("c1")
    \/ Discard("c1")

SpecGate == Init /\ [][NextGate]_vars

\* requests to a protected route running side by side: with no header,
\* with a token signed under another secret, or with a token that is valid
\* when sent
PairHeaders ==
    {<< >>, Bearer(GenerateToken("user-123", "a@x.com", "wrong-secret", now))}
    \cup {Bearer(GenerateToken(id, "a@x.com", cfg.JWTSecret, now)) :
            id \in UserIDsOf(users) \cup ForeignIDs}

NextPair ==
    \/ Tick
    \/ \E r \in Slots :
          \/ SignupBind(r, OneSignup, {"s1"})
          \/ SignupInsert(r)
          \/ Protected(r, {"POST /messages"}, PairHeaders)
          \/ CreateMessage(r, OneContent)
          \/ Discard(r)

SpecPair == Init /\ [][NextPair]_vars

\* two identities, and writes under the token of each running side by side,
\* all within one tick of the clock
TwoSignups == Bodies(Emails, {"password1"})

\* "Bearer " and a token issued just now for an identity of the store
WriterHeaders ==
    {Bearer(GenerateToken(u.id, u.email, cfg.JWTSecret, now)) : u \in users}

NextWriters ==
    \E r \in Slots :
          \/ SignupBind(r, TwoSignups, {"s1"})
          \/ SignupInsert(r)
          \/ Protected(r, {"POST /messages", "POST /messages/:id/replies"},
                       WriterHeaders)
          \/ CreateMessage(r, OneContent)
          \/ CreateReply(r, OneContent)
          \/ Discard(r)

SpecWriters == Init /\ [][NextWriters]_vars

\* one writer, and a reader of the two lists beside it
NextRead ==
    \/ Tick
    \/ SignupBind("c1", OneSignup, {"s1"})
    \/ SignupInsert("c1")
    \/ Protected("c1", {"POST /messages", "POST /messages/:id/replies"},
                 WriterHeaders)
    \/ CreateMessage("c1", OneContent)
    \/ CreateReplyWithin("c1", OneContent, MaxThread)
    \/ Discard("c1")
    \/ ListMessages("c2", {<< >>})
    \/ ListReplies("c2", {<< >>})
    \/ Discard("c2")

SpecRead == Init /\ [][NextRead]_vars

\* every operation that calls a store, with a store that may fail
NextFaults ==
    \/ SignupBind("c1", OneSignup, {"s1"})
    \/ SignupInsert("c1")
    \/ SignupInsertDown("c1")
    \/ Login("c1", OneSignup)
    \/ LoginDown("c1", OneSignup)
    \/ Protected("c1", {"POST /messages", "POST /messages/:id/replies"},
                 WriterHeaders)
    \/ CreateMessage("c1", OneContent)
    \/ CreateMessageDown("c1", OneContent)
    \/ CreateReply("c1", OneContent)
    \/ CreateReplyDown("c1", OneContent)
    \/ Discard("c1")
    \/ ListMessages("c2", {<< >>})
    \/ ListMessagesDown("c2")
    \/ GetMessage("c2", {<< >>})
    \/ GetMessageDown("c2")
    \/ ListReplies("c2", {<< >>})
    \/ ListRepliesDown("c2")
    \/ Discard("c2")

SpecFaults == Init /\ [][NextFaults]_vars

\* two identities replying to messages, with bodies that name a message and
\* an owner of their own
NextReplies ==
    \E r \in Slots :
          \/ SignupBind(r, TwoSignups, {"s1"})
          \/ SignupInsert(r)
          \/ Protected(r, {"POST /messages", "POST /messages/:id/replies"},
                       WriterHeaders)
          \/ CreateMessage(r, OneContent)
          \/ CreateReplyWithin(r, ReplyBodies, MaxReplies)
          \/ Discard(r)

SpecReplies == Init /\ [][NextReplies]_vars

\* every route of the API, one request after the other
NextAll ==
    \/ Tick
    \/ SignupBind("c1", OneSignup, {"s1"})
    \/ SignupInsert("c1")
    \/ Login("c1", OneSignup)
    \/ Protected("c1", ProtectedRoutes, WriterHeaders)
    \/ CreateMessage("c1", OneContent)
    \/ CreateReply("c1", OneContent)
    \/ UploadMedia("c1")
    \/ ListMessages("c1", {<< >>})
    \/ GetMessage("c1", {<< >>})
    \/ ListReplies("c1", {<< >>})
    \/ Discard("c1")

SpecAll == Init /\ [][NextAll]_vars

\* the Authorization headers sent to the read routes: none, a valid token,
\* a token signed with another secret, another scheme, and no token at all
PublicHeaders ==
    {<< >>, Bearer(<< W("randomstring") >>)}
    \cup {h \in ShapedHeaders : h[1] = W("Basic")}
    \cup {Bearer(GenerateToken(id, "a@x.com", secret, now)) :
             id \in UserIDsOf(users), secret \in SentSecrets}

\* one writer, and beside it a reader that sends any of these headers
NextPublic ==
    \/ SignupBind("c1", OneSignup, {"s1"})
    \/ SignupInsert("c1")
    \/ Protected("c1", {"POST /messages", "POST /messages/:id/replies"},
                 WriterHeaders)
    \/ CreateMessage("c1", OneContent)
    \/ CreateReply("c1", OneContent)
    \/ Discard("c1")
    \/ ListMessages("c2", PublicHeaders)
    \/ GetMessage("c2", PublicHeaders)
    \/ ListReplies("c2", PublicHeaders)
    \/ Discard("c2")

SpecPublic == Init /\ [][NextPublic]_vars

\* signups with either password and either salt, and logins with any
\* password
NextLogin ==
    \/ SignupBind("c1", Bodies(Emails, Passwords), Salts)
    \/ SignupInsert("c1")
    \/ Login("c1", Bodies(Emails, Passwords \cup {""}))
    \/ Discard("c1")

SpecLogin == Init /\ [][NextLogin]_vars

\* signup, login and the two write routes, fed with bodies and headers that
\* are turned down as well as with good ones
NextRejects ==
    \/ SignupBind("c1", SignupBodies, {"s1"})
    \/ SignupInsert("c1")
    \/ Login("c1", LoginBodies)
    \/ Protected("c1", {"POST /messages", "POST /messages/:id/replies"},
                 Headers)
    \/ CreateMessage("c1", ContentBodies)
    \/ CreateReply("c1", ContentBodies)
    \/ Discard("c1")

SpecRejects == Init /\ [][NextRejects]_vars

\* a feed of one message fewer than the limit of GET /messages: one identity
\* has posted them one per tick, but the first two at the same tick
Feed ==
    {[id |-> i, user_id |-> "u1", content |-> "hello", media_urls |-> << >>,
      created_at |-> IF i = 1 THEN 2 ELSE i] : i \in 1..(MessagesLimit - 1)}

InitFeed ==
    /\ now = MessagesLimit
    /\ cfg = Load
    /\ users = {[id |-> "u1", email |-> "a@x.com",
                 password_hash |-> HashPassword("password1", "s1")]}
    /\ messages = Feed
    /\ replies = {}
    /\ req = [r \in Slots |-> Idle]
    /\ held = {}
    /\ tsIn = [userID |-> "user-123", email |-> "a@x.com",
               secret |-> "wrong-secret"]
    /\ tsTok = << >>
    /\ tsOut = Nil

\* the feed grows past the limit while it is listed and its messages are
\* read one by one
NextFeed ==
    \/ Protected("c1", {"POST /messages"}, WriterHeaders)
    \/ CreateMessageWithin("c1", OneContent, MaxFeed)
    \/ GetMessage("c1", {<< >>})
    \/ Discard("c1")
    \/ ListMessages("c2", {<< >>})
    \/ Discard("c2")

SpecFeed == InitFeed /\ [][NextFeed]_vars

\* signups whose token may fail to be made, and logins
NextSigning ==
    \E r \in Slots :
          \/ SignupBind(r, OneSignup, Salts)
          \/ SignupInsert(r)
          \/ SignupInsertTokenFails(r)
          \/ Login(r, Bodies({"a@x.com"}, Passwords))
          \/ Discard(r)

SpecSigning == Init /\ [][NextSigning]_vars

\* signups running side by side
NextSignup ==
    \/ Tick
    \/ \E r \in Slots :
          \/ SignupBind(r, SignupBodies, Salts)
          \/ SignupInsert(r)
          \/ Discard(r)

SpecSignup == Init /\ [][NextSignup]_vars

\* signup, login and the tokens they hand out, presented at the gate
NextAuth ==
    \/ Tick
    \/ SignupBind("c1", SignupBodies, Salts)
    \/ SignupInsert("c1")
    \/ Login("c1", LoginBodies)
    \/ Deliver("c1")
    \/ Discard("c1")
    \/ Protected("c1", {"POST /media"}, HeldHeaders)
    \/ UploadMedia("c1")

SpecAuth == Init /\ [][NextAuth]_vars

\* ------------------------------------------------------ token service tests
\* token, err := GenerateToken(userID, email, secret)
TestGenerateToken ==
    /\ tsTok = << >>
    /\ tsTok' = GenerateToken(tsIn.userID, tsIn.email, tsIn.secret, now)
    /\ UNCHANGED <<now, cfg, store, req, held, tsIn, tsOut>>

\* claims, err := ValidateToken(token, secret), with the right or a wrong secret
TestValidateToken ==
    /\ tsTok # << >>
    /\ \E secret \in Secrets :
          tsOut' = [secret |-> secret, at |-> now,
                    res |-> ValidateToken(tsTok, secret, now)]
    /\ UNCHANGED <<now, cfg, store, req, held, tsIn, tsTok>>

InitToken ==
    /\ now = 0
    /\ cfg = Load
    /\ users = {}
    /\ messages = {}
    /\ replies = {}
    /\ req = [r \in Slots |-> Idle]
    /\ held = {}
    /\ tsIn \in [userID : ForeignIDs \cup {"user-456", ""}, email : Emails,
                secret : Secrets]
    /\ tsTok = << >>
    /\ tsOut = Nil

NextToken == Tick \/ TestGenerateToken \/ TestValidateToken

SpecToken == InitToken /\ [][NextToken]_vars

\* -------------------------------------------------------------- properties
\* the header starts with the scheme "Bearer" and one space
HasBearerPrefix(h) == Len(h) >= 2 /\ h[1] = W("Bearer") /\ h[2] = SP

\* what follows "Bearer " in the header
TokenOf(h) == SubSeq(h, 3, Len(h))

\* the header is missing, malformed, or its token fails validation at t
BadHeader(h, t) ==
    \/ h = << >>
    \/ ~HasBearerPrefix(h)
    \/ ValidateToken(TokenOf(h), cfg.JWTSecret, t).err # "nil"

\* slot r holds a request to a protected route that went through the gate
Gated(r) ==
    /\ req[r].pc \in {"handler", "done"}
    /\ req[r].route \in ProtectedRoutes

\* C1: a request to a protected route whose Authorization header is
\* missing, malformed or carries a token that fails validation is answered
\* 401, and the handler of the route is never invoked for it.
GateRejects ==
    \A r \in Slots :
        (Gated(r) /\ BadHeader(req[r].header, req[r].at))
        => /\ req[r].pc = "done"
           /\ req[r].status = 401
           /\ ~req[r].invoked

\* POST /messages with a correctly signed token, sent at the tick it expires
GateRejectsWitness ==
    \E r \in Slots :
        /\ req[r].pc = "done"
        /\ req[r].route = "POST /messages"
        /\ req[r].header =
              Bearer(GenerateToken("user-123", "a@x.com", cfg.JWTSecret, 0))
        /\ req[r].at = TokenLifetime
        /\ req[r].status = 401
        /\ ~req[r].invoked

\* C2: whenever POST /messages persists a message, its user_id is the
\* subject of the token that passed the gate for that request, whatever the
\* body holds.
OwnerIsSubject ==
    [][\A m \in messages' \ messages :
          \E r \in Slots :
              /\ req[r].pc = "handler"
              /\ req[r].route = "POST /messages"
              /\ req'[r].pc = "done"
              /\ req'[r].data = m
              /\ HasBearerPrefix(req[r].header)
              /\ LET res == ValidateToken(TokenOf(req[r].header),
                                          cfg.JWTSecret, req[r].at)
                 IN  res.err = "nil" /\ m.user_id = res.claims.UserID]_vars

\* a message persisted for the subject u1 of the token, from a body that
\* names u2 as its owner
OwnerIsSubjectWitness ==
    \E r \in Slots :
        /\ req[r].pc = "done"
        /\ req[r].route = "POST /messages"
        /\ req[r].status = 201
        /\ req[r].body.user_id = "u2"
        /\ req[r].data \in messages
        /\ req[r].data.user_id = "u1"
        /\ TokenOf(req[r].header)[1].claims.UserID = "u1"

\* slot r holds a signup that passed validation while its email was free
FreshSignup(r) ==
    /\ req[r].pc \in {"insert", "done"}
    /\ req[r].route = "POST /signup"
    /\ BindSignupRequest(req[r].body)
    /\ req[r].fresh

\* C3: of two signups with the same email in flight together, both past
\* validation, exactly one is answered 201 and the other 409, and one
\* identity with that email exists afterwards.
OneSignupWins ==
    \A r1, r2 \in Slots :
        (r1 # r2 /\ FreshSignup(r1) /\ FreshSignup(r2)
            /\ req[r1].body.email = req[r2].body.email)
        => LET same == {u \in users : u.email = req[r1].body.email}
           IN  /\ req[r1].pc = "done" => req[r1].status \in {201, 409}
               /\ (req[r1].pc = "done" /\ req[r2].pc = "insert")
                     => req[r1].status = 201
               /\ (req[r1].pc = "done" /\ req[r2].pc = "done")
                     => /\ {req[r1].status, req[r2].status} = {201, 409}
                        /\ Cardinality(same) = 1
               /\ Cardinality(same) <= 1

\* both signups answered, after both passed validation with the email free
OneSignupWinsWitness ==
    /\ FreshSignup("c1") /\ FreshSignup("c2")
    /\ req["c1"].body.email = req["c2"].body.email
    /\ req["c1"].pc = "done" /\ req["c2"].pc = "done"
    /\ req["c1"].status = 409 /\ req["c2"].status = 201

\* C4: a login whose email has no identity and a login whose password is
\* wrong get the same response: 401, the same error text, no token.
LoginFailuresAlike ==
    \A r \in Slots :
        (/\ req[r].pc = "done"
         /\ req[r].route = "POST /login"
         /\ BindLoginRequest(req[r].body)
         /\ \/ \A u \in users : u.email # req[r].body.email
            \/ \E u \in users : /\ u.email = req[r].body.email
                                /\ u.password_hash.of # req[r].body.password)
        => <<req[r].status, req[r].error, req[r].token, req[r].data>>
              = <<401, "invalid email or password", << >>, Nil>>

\* a login with the email of an identity and a password that is not its own
LoginFailuresAlikeWitness ==
    \E r \in Slots, u \in users :
        /\ req[r].pc = "done"
        /\ req[r].route = "POST /login"
        /\ req[r].body.email = u.email
        /\ req[r].body.password # ""
        /\ u.password_hash.of # req[r].body.password
        /\ req[r].status = 401

\* C5: a token validated with the secret it was issued with, before its
\* expiresAt, is accepted and yields exactly the subjectId and email given
\* to GenerateToken.
TokenRoundTrip ==
    (tsOut # Nil /\ tsOut.secret = tsIn.secret
        /\ tsOut.at < tsTok[1].claims.ExpiresAt)
    => /\ tsOut.res.err = "nil"
       /\ tsOut.res.claims.UserID = tsIn.userID
       /\ tsOut.res.claims.Email = tsIn.email

\* a token validated one tick after it was issued, with its own secret
TokenRoundTripWitness ==
    /\ tsOut # Nil
    /\ tsOut.secret = tsIn.secret
    /\ tsOut.at = tsTok[1].claims.IssuedAt + 1
    /\ tsOut.at < tsTok[1].claims.ExpiresAt
    /\ tsOut.res.err = "nil"

\* C6: a token issued with secret A fails validation with every secret
\* B # A at every clock value; at the gate it is answered 401 "invalid or
\* expired token".
WrongSecretRejected ==
    \A r \in Slots :
        (/\ Gated(r)
         /\ HasBearerPrefix(req[r].header)
         /\ Len(TokenOf(req[r].header)) = 1
         /\ TokenOf(req[r].header)[1].kind = "jwt"
         /\ \E A \in Secrets \ {cfg.JWTSecret} :
               TokenOf(req[r].header)[1].sig =
                  HS256(TokenOf(req[r].header)[1].claims, A))
        => /\ req[r].pc = "done"
           /\ req[r].status = 401
           /\ req[r].error = "invalid or expired token"
           /\ ~req[r].invoked
           /\ \A B \in Secrets \ {TokenOf(req[r].header)[1].sig.key},
                 t \in 0..(MaxTime + TokenLifetime) :
                 ValidateToken(TokenOf(req[r].header), B, t).err # "nil"

\* a token signed with "wrong-secret", presented before its expiry
WrongSecretRejectedWitness ==
    \E r \in Slots :
        /\ Gated(r)
        /\ req[r].header =
              Bearer(GenerateToken("user-123", "a@x.com", "wrong-secret",
                                   req[r].at))
        /\ req[r].status = 401
        /\ req[r].error = "invalid or expired token"

\* C7: with the correct secret a token is accepted exactly while
\* expiresAt > now; from the tick the clock reaches expiresAt on, validation
\* fails, at that time and at every later one.
TokenExpiry ==
    /\ (tsOut # Nil /\ tsOut.secret = tsIn.secret)
         => (tsOut.res.err = "nil" <=> tsTok[1].claims.ExpiresAt > tsOut.at)
    /\ (tsTok # << >> /\ now >= tsTok[1].claims.ExpiresAt)
         => \A t \in now..(MaxTime + TokenLifetime) :
               ValidateToken(tsTok, tsIn.secret, t).err = "token is expired"

\* a correctly signed token rejected at the very tick it expires
TokenExpiryWitness ==
    /\ tsOut # Nil
    /\ tsOut.secret = tsIn.secret
    /\ tsOut.at = tsTok[1].claims.ExpiresAt
    /\ tsOut.res.err = "token is expired"

\* C8: handing out a new token invalidates no earlier one: every token a
\* client holds is accepted by the gate while the clock is before that
\* token's own ExpiresAt, however many tokens followed it.
EarlierTokensStay ==
    /\ \A token \in held :
          ~AuthMiddleware(Bearer(token), cfg, now).aborted
             <=> now < token[1].claims.ExpiresAt
    /\ \A r \in Slots :
          (Gated(r) /\ req[r].header \in HeldHeaders)
          => (req[r].gate.aborted
                <=> ~(req[r].at < TokenOf(req[r].header)[1].claims.ExpiresAt))

\* the older of two tokens held for one identity passes the gate after the
\* newer one was issued
EarlierTokensStayWitness ==
    \E r \in Slots, older \in held, newer \in held :
        /\ older[1].claims.UserID = newer[1].claims.UserID
        /\ older[1].claims.IssuedAt < newer[1].claims.IssuedAt
        /\ Gated(r)
        /\ req[r].header = Bearer(older)
        /\ req[r].at >= newer[1].claims.IssuedAt
        /\ ~req[r].gate.aborted
        /\ req[r].status # 401

\* C9: the outcome of the gate and the identity it attaches are a function
\* of the header, the configured secret and the clock alone: two requests
\* with the same header at the same tick get the same outcome whatever the
\* stores held, a token whose subject has no users row is authorized, and
\* the gate calls nothing but the header, the split and the token service.
GateIgnoresStores ==
    /\ \A r1, r2 \in Slots :
          (Gated(r1) /\ Gated(r2) /\ req[r1].header = req[r2].header
              /\ req[r1].at = req[r2].at)
          => req[r1].gate = req[r2].gate
    /\ \A r \in Slots :
          Gated(r)
          => /\ req[r].gate = AuthMiddleware(req[r].header, cfg, req[r].at)
             /\ \A i \in 1..Len(req[r].gate.trail) :
                   req[r].gate.trail[i] \in
                      {"GetHeader", "SplitN", "ValidateToken", "Set", "Next"}
             /\ (~BadHeader(req[r].header, req[r].at))
                   => /\ ~req[r].gate.aborted
                      /\ req[r].gate.keys.user_id =
                            TokenOf(req[r].header)[1].claims.UserID

\* two requests with one token of a subject without a users row, gated at
\* the same tick before and after a signup filled the table
GateIgnoresStoresWitness ==
    /\ Gated("c1") /\ Gated("c2")
    /\ req["c1"].header = req["c2"].header
    /\ req["c1"].at = req["c2"].at
    /\ req["c1"].seen = {} /\ req["c2"].seen # {}
    /\ ~req["c1"].gate.aborted /\ ~req["c2"].gate.aborted
    /\ req["c1"].gate.keys.user_id \notin UserIDsOf(users)

\* C10: the gate checks in a fixed order and stops at the first failure: no
\* header is rejected before the split, a header without the "Bearer "
\* prefix is rejected before the token service is called, only a header
\* with the prefix has its token validated, only a validated token is
\* authorized; every request ends in exactly one of the four outcomes.
GateOrder ==
    \A r \in Slots :
        Gated(r) =>
        LET h == req[r].header
            g == req[r].gate
            valid == ValidateToken(TokenOf(h), cfg.JWTSecret, req[r].at)
        IN  /\ h = << >>
                 => /\ g.trail = <<"GetHeader">>
                    /\ g.aborted /\ g.status = 401
                    /\ g.error = "authorization header required"
            /\ (h # << >> /\ ~HasBearerPrefix(h))
                 => /\ g.trail = <<"GetHeader", "SplitN">>
                    /\ g.aborted /\ g.status = 401
                    /\ g.error = "invalid authorization header format"
            /\ (HasBearerPrefix(h) /\ valid.err # "nil")
                 => /\ g.trail = <<"GetHeader", "SplitN", "ValidateToken">>
                    /\ g.aborted /\ g.status = 401
                    /\ g.error = "invalid or expired token"
            /\ (HasBearerPrefix(h) /\ valid.err = "nil")
                 => /\ g.trail = <<"GetHeader", "SplitN", "ValidateToken",
                                   "Set", "Next">>
                    /\ ~g.aborted
                    /\ g.keys = [user_id |-> valid.claims.UserID,
                                 email |-> valid.claims.Email]

\* a header with the scheme in lower case around a valid token: rejected
\* for its format, the token service not called
GateOrderWitness ==
    \E r \in Slots :
        /\ Gated(r)
        /\ req[r].header = << W("bearer"), SP >> \o
              GenerateToken("user-123", "a@x.com", cfg.JWTSecret, req[r].at)
        /\ req[r].gate.trail = <<"GetHeader", "SplitN">>
        /\ req[r].error = "invalid authorization header format"

\* the first segment of the header: what stands before its first space
SchemeOf(h) == IF IndexSP(h) = 0 THEN h ELSE SubSeq(h, 1, IndexSP(h) - 1)

\* C11: the scheme is matched case-sensitively against "Bearer": a header
\* with no space, or whose first segment is anything but "Bearer", is
\* answered 401 "invalid authorization header format" without the token
\* service being called, also when what follows is a valid token.
SchemeIsCaseSensitive ==
    \A r \in Slots :
        (/\ Gated(r)
         /\ req[r].header # << >>
         /\ \/ IndexSP(req[r].header) = 0
            \/ SchemeOf(req[r].header) # << W("Bearer") >>)
        => /\ req[r].pc = "done"
           /\ req[r].status = 401
           /\ req[r].error = "invalid authorization header format"
           /\ ~req[r].invoked
           /\ req[r].gate.trail = <<"GetHeader", "SplitN">>

\* "BEARER " and a token that is valid when sent: a format rejection
SchemeIsCaseSensitiveWitness ==
    \E r \in Slots :
        /\ Gated(r)
        /\ req[r].header = << W("BEARER"), SP >> \o
              GenerateToken("user-123", "a@x.com", cfg.JWTSecret, req[r].at)
        /\ req[r].status = 401
        /\ req[r].error = "invalid authorization header format"

\* the header is "Bearer " with nothing after it, or with more than one
\* segment after it
MissingOrExtraSegments(h) ==
    /\ HasBearerPrefix(h)
    /\ TokenOf(h) = << >> \/ IndexSP(TokenOf(h)) # 0

\* C12, as the code has it: "Bearer " with nothing after it, or with extra
\* segments after the token, passes the format check; all that follows the
\* first space goes to the token service, and the answer is 401 "invalid or
\* expired token".
TokenPartGoesToValidation ==
    \A r \in Slots :
        (Gated(r) /\ MissingOrExtraSegments(req[r].header))
        => /\ req[r].pc = "done"
           /\ req[r].status = 401
           /\ req[r].error = "invalid or expired token"
           /\ ~req[r].invoked
           /\ req[r].gate.trail = <<"GetHeader", "SplitN", "ValidateToken">>

\* a valid token followed by a space and one more segment, rejected by the
\* token service
TokenPartGoesToValidationWitness ==
    \E r \in Slots :
        /\ Gated(r)
        /\ req[r].header =
              Bearer(GenerateToken("user-123", "a@x.com", cfg.JWTSecret,
                                   req[r].at)) \o << SP, W("x") >>
        /\ req[r].error = "invalid or expired token"
        /\ req[r].gate.trail = <<"GetHeader", "SplitN", "ValidateToken">>

\* C12, as the spec has it: such a header is a format rejection and the
\* token service is not called for it
MissingOrExtraIsFormatRejection ==
    \A r \in Slots :
        (Gated(r) /\ MissingOrExtraSegments(req[r].header))
        => /\ req[r].error = "invalid authorization header format"
           /\ \A i \in 1..Len(req[r].gate.trail) :
                 req[r].gate.trail[i] # "ValidateToken"

\* C13: the user_id and email a handler finds in its context are the
\* UserID and Email of the claims of the token its own request presented;
\* a context holds them only if its request passed the gate, so a request
\* of a public route, a rejected one and the next request in the same slot
\* find none.
KeysAreOwnClaims ==
    \A r \in Slots :
        req[r].pc # "idle" =>
        LET h == req[r].header
            authorized == /\ Gated(r)
                          /\ ~BadHeader(h, req[r].at)
        IN  /\ authorized
                 => /\ req[r].gate.keys =
                          [user_id |-> TokenOf(h)[1].claims.UserID,
                           email |-> TokenOf(h)[1].claims.Email]
                    /\ (req[r].pc = "done" /\ req[r].status = 201)
                          => req[r].data.user_id = TokenOf(h)[1].claims.UserID
            /\ ~authorized => req[r].gate.keys = Nil

\* one request created a message as u1, while the other slot, which is now
\* in a signup, holds no identity
KeysAreOwnClaimsWitness ==
    /\ req["c1"].pc = "done"
    /\ req["c1"].route = "POST /messages"
    /\ req["c1"].status = 201
    /\ req["c1"].gate.keys = [user_id |-> "u1", email |-> "a@x.com"]
    /\ req["c1"].data.user_id = "u1"
    /\ req["c2"].pc = "done"
    /\ req["c2"].route = "POST /signup"
    /\ req["c2"].gate.keys = Nil

\* the row is written in this step by the handler of slot r, under the
\* subject of the token that r's own request presented
WrittenByOwnRequest(row, r, route) ==
    /\ req[r].pc = "handler"
    /\ req[r].route = route
    /\ req'[r].pc = "done"
    /\ req'[r].data = row
    /\ HasBearerPrefix(req[r].header)
    /\ LET res == ValidateToken(TokenOf(req[r].header), cfg.JWTSecret, req[r].at)
       IN  res.err = "nil" /\ row.user_id = res.claims.UserID

\* C14: with requests in flight side by side under different tokens, every
\* message and every reply persisted carries the subject of the token of
\* the request that persisted it, in every interleaving.
OwnIdentityUnderConcurrency ==
    [][/\ \A m \in messages' \ messages :
             \E r \in Slots : WrittenByOwnRequest(m, r, "POST /messages")
       /\ \A p \in replies' \ replies :
             \E r \in Slots :
                 WrittenByOwnRequest(p, r, "POST /messages/:id/replies")]_vars

\* c1 was gated under the token of u1 before u2 existed, c2 was gated under
\* the token of u2 and persisted its message first, c1 persisted second:
\* both were in flight together, and each row has its own owner
OwnIdentityUnderConcurrencyWitness ==
    /\ req["c1"].pc = "done" /\ req["c2"].pc = "done"
    /\ req["c1"].route = "POST /messages" /\ req["c2"].route = "POST /messages"
    /\ req["c1"].status = 201 /\ req["c2"].status = 201
    /\ req["c1"].seen = {"u1"}
    /\ req["c2"].gate.keys.user_id = "u2" /\ req["c2"].data.user_id = "u2"
    /\ req["c1"].gate.keys.user_id = "u1" /\ req["c1"].data.user_id = "u1"
    /\ req["c2"].data.id < req["c1"].data.id

\* the contents sent that are nothing but white space
BlankContents == {"", "   "}

\* strings.TrimSpace, on the contents sent
TrimSpace(text) == IF text \in BlankContents THEN "" ELSE text

\* C15, as the spec has it: every persisted message and reply has content
\* that is non-empty after trimming; a POST of an identity of the store
\* whose content is "" or only white space is answered 400 and persists
\* nothing.
ContentNonEmptyAfterTrim ==
    /\ \A m \in messages : TrimSpace(m.content) # ""
    /\ \A p \in replies : TrimSpace(p.content) # ""
    /\ \A r \in Slots :
          (/\ req[r].pc = "done"
           /\ req[r].route \in {"POST /messages", "POST /messages/:id/replies"}
           /\ req[r].body # Nil
           /\ req[r].gate.keys.user_id \in UserIDsOf(users)
           /\ TrimSpace(req[r].body.content) = "")
          => req[r].status = 400

\* POST /messages with content "   " answered 201, the row persisted
BlankContentPersisted ==
    \E r \in Slots :
        /\ req[r].pc = "done"
        /\ req[r].route = "POST /messages"
        /\ req[r].body # Nil
        /\ req[r].body.content = "   "
        /\ req[r].status = 201
        /\ req[r].data \in messages
        /\ req[r].data.content = "   "

\* in this step slot r answers a request of the route with 200
Answers(r, route) ==
    /\ req[r].pc = "idle"
    /\ req'[r].pc = "done"
    /\ req'[r].route = route
    /\ req'[r].status = 200

\* the rows of a list, as a set
RowsOf(list) == {list[i] : i \in 1..Len(list)}

\* C19, as the code has it: GET /messages lists every message once (up to
\* the limit) in descending created_at order, so a message that is newer
\* than every other one is listed first; messages with the same created_at
\* come in either order.
NewestFirstUpToTies ==
    [][\A r \in Slots :
          Answers(r, "GET /messages") =>
          LET list == req'[r].data
          IN  /\ Cardinality(messages) <= MessagesLimit
                    => /\ RowsOf(list) = messages
                       /\ Len(list) = Cardinality(messages)
              /\ \A i, j \in 1..Len(list) :
                    i < j => list[i].created_at >= list[j].created_at
              /\ \A m \in messages :
                    (\A other \in messages \ {m} :
                        other.created_at < m.created_at)
                    => list[1] = m]_vars

\* a list of two messages, the one posted last, at a later tick, first
NewestFirstUpToTiesWitness ==
    \E r \in Slots :
        /\ req[r].pc = "done"
        /\ req[r].route = "GET /messages"
        /\ Len(req[r].data) = 2
        /\ req[r].data[1].id = 2
        /\ req[r].data[1].created_at > req[r].data[2].created_at

\* C19, as the spec has it: the message posted last (ids are handed out in
\* the order of the inserts) is the first of the next GET /messages.
LastPostedIsFirst ==
    [][\A r \in Slots :
          (Answers(r, "GET /messages") /\ messages # {})
          => req'[r].data[1].id = Cardinality(messages)]_vars

\* C20: GET /messages/:id/replies lists exactly the replies whose
\* message_id is :id, each once, none of another message, in ascending
\* created_at order.
RepliesOfThread ==
    [][\A r \in Slots :
          Answers(r, "GET /messages/:id/replies") =>
          LET list == req'[r].data
              thread == {p \in replies : p.message_id = req'[r].id}
          IN  /\ RowsOf(list) = thread
              /\ Len(list) = Cardinality(thread)
              /\ \A i, j \in 1..Len(list) :
                    i < j => list[i].created_at <= list[j].created_at]_vars

\* the two replies of a message listed oldest first, while the table holds
\* a reply of another message
RepliesOfThreadWitness ==
    \E r \in Slots :
        /\ req[r].pc = "done"
        /\ req[r].route = "GET /messages/:id/replies"
        /\ Len(req[r].data) = 2
        /\ req[r].data[1].created_at < req[r].data[2].created_at
        /\ \E p \in replies : p.message_id # req[r].id

\* C16, as the spec has it: a request whose store call failed for another
\* reason than a uniqueness conflict is answered 500, after one call to the
\* store.
StoreFailureIsInternalError ==
    \A r \in Slots :
        (req[r].pc = "done" /\ "fault" \in DOMAIN req[r])
        => /\ req[r].status = 500
           /\ req[r].calls = 1

\* a signup whose INSERT failed while no identity has its email, answered
\* 409 "email already exists"
SignupFaultReportedAsConflict ==
    \E r \in Slots :
        /\ req[r].pc = "done"
        /\ req[r].route = "POST /signup"
        /\ "fault" \in DOMAIN req[r]
        /\ \A u \in users : u.email # req[r].body.email
        /\ req[r].status = 409
        /\ req[r].error = "email already exists"

\* C17: a signup whose email belongs to an identity when its INSERT runs is
\* answered 409 with no token and no identity data, and the users table is
\* left as it was (the id and the hash of the identity that has the email
\* included); in every state no two identities have the same email.
DuplicateSignupIsConflict ==
    /\ [](\A u, v \in users : u.email = v.email => u = v)
    /\ [][\A r \in Slots :
            (/\ req[r].pc = "insert"
             /\ req'[r].pc = "done"
             /\ \E u \in users : u.email = req[r].body.email)
            => /\ req'[r].status = 409
               /\ req'[r].token = << >>
               /\ req'[r].data = Nil
               /\ users' = users]_vars

\* a signup sent for an email that was taken when it arrived, answered 409,
\* with the identity of that email in the table beside another identity
DuplicateSignupIsConflictWitness ==
    \E r \in Slots :
        /\ req[r].pc = "done"
        /\ req[r].route = "POST /signup"
        /\ BindSignupRequest(req[r].body)
        /\ ~req[r].fresh
        /\ req[r].status = 409
        /\ \E u \in users : u.email = req[r].body.email
        /\ Cardinality(users) = 2

\* slot r holds a signup answered 201
SignedUp(r) ==
    /\ req[r].pc = "done"
    /\ req[r].route = "POST /signup"
    /\ req[r].status = 201

\* C18: a signup answered 201 has inserted one identity, with the email and
\* the hash of the request; the token of the response validates, and its
\* claims carry the id and the email of that identity; the identity data of
\* the response are the id and the email, with no password hash; the gate
\* lets the token through with that id and email as keys, and a message or
\* reply written under the token is owned by that identity.
SignupTokenIsOwn ==
    [][\A r \in Slots :
          /\ (req[r].pc = "insert" /\ req'[r].pc = "done"
                 /\ req'[r].status = 201)
             => LET v == ValidateToken(req'[r].token, cfg.JWTSecret, now)
                    c == AuthMiddleware(Bearer(req'[r].token), cfg, now)
                IN  \E u \in users' \ users :
                       /\ users' = users \cup {u}
                       /\ u.email = req[r].body.email
                       /\ u.password_hash = req[r].hash
                       /\ v.err = "nil"
                       /\ v.claims.UserID = u.id
                       /\ v.claims.Email = u.email
                       /\ req'[r].data = [id |-> u.id, email |-> u.email]
                       /\ ~c.aborted
                       /\ c.keys = [user_id |-> u.id, email |-> u.email]
          /\ \A w \in Slots :
                (/\ SignedUp(r)
                 /\ req[w].pc = "handler"
                 /\ req[w].header = Bearer(req[r].token)
                 /\ req'[w].pc = "done"
                 /\ req'[w].status = 201)
                => req'[w].data.user_id = req[r].data.id]_vars

\* the second identity has signed up, and a message was written under the
\* token of its signup: the message is owned by the second identity
SignupTokenIsOwnWitness ==
    /\ SignedUp("c1")
    /\ req["c1"].data.id = "u2"
    /\ req["c2"].pc = "done"
    /\ req["c2"].route = "POST /messages"
    /\ req["c2"].header = Bearer(req["c1"].token)
    /\ req["c2"].status = 201
    /\ req["c2"].data.user_id = "u2"

\* C21: whenever POST /messages/:id/replies persists a reply, its message_id
\* is the id of the path of the request and its user_id is the subject of
\* the token of the request, whatever the body holds.
ReplyBoundToPathAndSubject ==
    [][\A p \in replies' \ replies :
          \E r \in Slots :
              /\ WrittenByOwnRequest(p, r, "POST /messages/:id/replies")
              /\ p.message_id = req'[r].id]_vars

\* a reply persisted under message 1 for the subject u1, from a body that
\* names message 2 and the owner u2, both of which exist
ReplyBoundToPathAndSubjectWitness ==
    \E r \in Slots :
        /\ req[r].pc = "done"
        /\ req[r].route = "POST /messages/:id/replies"
        /\ req[r].status = 201
        /\ req[r].body.user_id = "u2"
        /\ req[r].body.message_id = 2
        /\ req[r].id = 1
        /\ req[r].data \in replies
        /\ req[r].data.message_id = 1
        /\ req[r].data.user_id = "u1"
        /\ "u2" \in UserIDsOf(users)
        /\ \E m \in messages : m.id = 2

\* C22: in every state the message_id of each reply is the id of a message
\* in the messages table; a POST /messages/:id/replies that passed the gate
\* and whose :id is the id of no message persists nothing and is answered
\* with the error of a failed INSERT, 500 "failed to create reply" (the
\* handler has no answer of its own for a message that is not there).
ReplyParentExists ==
    /\ [](\A p \in replies : \E m \in messages : m.id = p.message_id)
    /\ [][\A r \in Slots :
            (/\ req[r].pc = "handler"
             /\ req[r].route = "POST /messages/:id/replies"
             /\ req'[r].pc = "done"
             /\ \A m \in messages : m.id # req'[r].id)
            => /\ replies' = replies
               /\ req'[r].status = 500
               /\ req'[r].error = "failed to create reply"
               /\ req'[r].data = Nil]_vars

\* a reply sent by an existing identity, with a well-formed body, to an id
\* that no message has, while messages and replies to them exist
ReplyParentExistsWitness ==
    \E r \in Slots :
        /\ req[r].pc = "done"
        /\ req[r].route = "POST /messages/:id/replies"
        /\ req[r].gate.keys # Nil
        /\ req[r].gate.keys.user_id \in UserIDsOf(users)
        /\ BindContentRequest(req[r].body)
        /\ \A m \in messages : m.id # req[r].id
        /\ messages # {}
        /\ replies # {}
        /\ req[r].status = 500

\* C23: no step of any route changes or removes a message or a reply: every
\* row of the two tables is in the tables after the step, with every field
\* as it was, and a row the step adds has an id no earlier row has.
RecordsAppendOnly ==
    [][/\ messages \subseteq messages'
       /\ replies \subseteq replies'
       /\ \A m \in messages' \ messages : \A o \in messages : o.id # m.id
       /\ \A p \in replies' \ replies : \A o \in replies : o.id # p.id]_vars

\* two messages of one owner and a reply are in the tables, the first
\* message written at an earlier tick than the second, and a read has run
RecordsAppendOnlyWitness ==
    /\ \E m1, m2 \in messages :
          /\ m1.user_id = m2.user_id
          /\ m1.created_at < m2.created_at
    /\ replies # {}
    /\ req["c1"].pc = "done"
    /\ req["c1"].route = "GET /messages/:id"
    /\ req["c1"].status = 200

\* the read routes
ReadRoutes == {"GET /messages", "GET /messages/:id", "GET /messages/:id/replies"}

GetMessageFoundOrNot ==
    [][\A r \in Slots :
          (req[r].pc = "idle" /\ req'[r].pc = "done"
              /\ req'[r].route = "GET /messages/:id") =>
          IF "fault" \in DOMAIN req'[r]
          THEN req'[r].status = 500
          ELSE IF \E m \in messages : m.id = req'[r].id
          THEN /\ req'[r].status = 200
               /\ req'[r].data \in messages
               /\ req'[r].data.id = req'[r].id
          ELSE req'[r].status = 404]_vars

\* the store at work, no message with the id of the path, and the answer
\* is 500 "failed to get message"
MissingMessageIsInternalError ==
    \E r \in Slots :
        /\ req[r].pc = "done"
        /\ req[r].route = "GET /messages/:id"
        /\ "fault" \notin DOMAIN req[r]
        /\ \A m \in messages : m.id # req[r].id
        /\ req[r].status = 500
        /\ req[r].error = "failed to get message"

RejectedWritesNothing ==
    [][\A r \in Slots :
          (req[r].pc # "done" /\ req'[r].pc = "done"
              /\ req'[r].status \in {400, 401})
          => /\ users' = users
             /\ messages' = messages
             /\ replies' = replies]_vars

\* a POST /messages that passed the gate for an identity of the store and
\* was answered 400 for its body, while the table holds an earlier message
RejectedWritesNothingWitness ==
    /\ req["c1"].pc = "done"
    /\ req["c1"].route = "POST /messages"
    /\ req["c1"].status = 400
    /\ req["c1"].gate.keys # Nil
    /\ req["c1"].gate.keys.user_id \in UserIDsOf(users)
    /\ Cardinality(messages) = 1

\* C28: in every state the user_id of each message and of each reply is the
\* id of a row of users; a write that passed the gate under a token whose
\* subject has no row in users, with a body that binds, persists nothing
\* and is answered 500.
OwnerExists ==
    /\ [](\A row \in messages \cup replies : row.user_id \in UserIDsOf(users))
    /\ [][\A r \in Slots :
            (/\ req[r].pc = "handler"
             /\ req[r].route \in {"POST /messages", "POST /messages/:id/replies"}
             /\ req'[r].pc = "done"
             /\ req[r].gate.keys # Nil
             /\ req[r].gate.keys.user_id \notin UserIDsOf(users)
             /\ BindContentRequest(req'[r].body))
            => /\ ~req[r].gate.aborted
               /\ req'[r].status = 500
               /\ req'[r].data = Nil
               /\ messages' = messages
               /\ replies' = replies]_vars

\* a POST /messages under a valid token of the subject "user-123", which
\* has no identity, with content to persist, while identities and messages
\* of theirs exist
OwnerExistsWitness ==
    /\ req["c1"].pc = "done"
    /\ req["c1"].route = "POST /messages"
    /\ req["c1"].gate.keys # Nil
    /\ req["c1"].gate.keys.user_id = "user-123"
    /\ req["c1"].body.content = "hello"
    /\ req["c1"].status = 500
    /\ users # {}
    /\ messages # {}

\* C29: GET /messages lists min(50, number of messages) messages, each
\* once, and no message left out is newer than a message listed; a message
\* left out of the list is still answered by GET /messages/:id, as every
\* message is.
FeedIsNewestFifty ==
    [][\A r \in Slots :
          /\ Answers(r, "GET /messages")
             => LET list == req'[r].data
                IN  /\ Len(list) = IF Cardinality(messages) < MessagesLimit
                                   THEN Cardinality(messages)
                                   ELSE MessagesLimit
                    /\ RowsOf(list) \subseteq messages
                    /\ Cardinality(RowsOf(list)) = Len(list)
                    /\ \A m \in messages \ RowsOf(list) :
                          \A i \in 1..Len(list) :
                             m.created_at <= list[i].created_at
          /\ (/\ req[r].pc = "idle"
              /\ req'[r].pc = "done"
              /\ req'[r].route = "GET /messages/:id"
              /\ \E m \in messages : m.id = req'[r].id)
             => /\ req'[r].status = 200
                /\ req'[r].data \in messages
                /\ req'[r].data.id = req'[r].id]_vars

\* 52 messages are in the table; the list holds 50 of them, the first
\* message is not among these, and GET /messages/1 has answered with it
FeedIsNewestFiftyWitness ==
    /\ Cardinality(messages) = MessagesLimit + 2
    /\ req["c2"].pc = "done"
    /\ req["c2"].route = "GET /messages"
    /\ Len(req["c2"].data) = MessagesLimit
    /\ \A i \in 1..MessagesLimit : req["c2"].data[i].id # 1
    /\ req["c1"].pc = "done"
    /\ req["c1"].route = "GET /messages/:id"
    /\ req["c1"].status = 200
    /\ req["c1"].data.id = 1

\* C30: a signup answered 500 because no token could be made has added its
\* identity to the users table all the same, and answers with no token; a
\* later signup for that email is answered 409 with no token and adds
\* nothing; a login with the email and the password of the identity is
\* answered 200 with a token whose claims are the id and the email of it.
SignupNotAtomic ==
    [][\A r \in Slots :
          /\ (req[r].pc = "insert" /\ req'[r].pc = "done"
                 /\ req'[r].status = 500)
             => /\ req'[r].token = << >>
                /\ req'[r].data = Nil
                /\ \E u \in users' \ users :
                      /\ u.email = req[r].body.email
                      /\ u.password_hash = req[r].hash
          /\ (req[r].pc = "insert" /\ req'[r].pc = "done"
                 /\ \E u \in users : u.email = req[r].body.email)
             => /\ req'[r].status = 409
                /\ req'[r].token = << >>
                /\ users' = users
          /\ (req[r].pc = "idle" /\ req'[r].pc = "done"
                 /\ req'[r].route = "POST /login")
             => \A u \in users :
                   (/\ u.email = req'[r].body.email
                    /\ CheckPassword(req'[r].body.password, u.password_hash))
                   => LET v == ValidateToken(req'[r].token, cfg.JWTSecret, now)
                      IN  /\ req'[r].status = 200
                          /\ v.err = "nil"
                          /\ v.claims.UserID = u.id
                          /\ v.claims.Email = u.email]_vars

\* the signup of c1 ended 500 and its identity is in the table; c2 has
\* logged in as that identity
SignupNotAtomicWitness ==
    /\ req["c1"].pc = "done"
    /\ req["c1"].route = "POST /signup"
    /\ req["c1"].status = 500
    /\ users # {}
    /\ req["c2"].pc = "done"
    /\ req["c2"].route = "POST /login"
    /\ req["c2"].body.email = req["c1"].body.email
    /\ req["c2"].status = 200
    /\ req["c2"].data.id \in UserIDsOf(users)

====
